---- MODULE Spec2Model ----
(***************************************************************************)
(* remio.camio.Camera: the threaded read loop of one camera device, the    *)
(* callers of start()/stop()/pause()/resume()/setSpeed() and a reader      *)
(* calling read().  Every thread is a process with its own position; one   *)
(* action is one statement (or one run of statements that touch nothing    *)
(* another thread reads) of src/remio/camio.py.                            *)
(***************************************************************************)
EXTENDS Integers, Sequences, FiniteSets, TLC

(* ------------------------------ bounds -------------------------------- *)
\* samples the capture handle can deliver before its read() reports no data
MaxFrames == 3
\* the largest number of leading open attempts that fail
MaxFail == 2
\* times the opened handle may drop (isOpened() turning false) on its own
MaxDisconnects == 1
\* threads calling start()/stop()
NumCallers == 1

(* ------------------------- program constants -------------------------- *)
\* queueMaxSize of the device under test (Queue(maxsize=queueMaxSize))
QueueMaxSize == 2
\* self.frame = None / a read that returns None
NoFrame == 0
\* the background image returned for a device that is not connected
BackgroundImage == -1
\* queue.Empty raised out of read()
RaisedEmpty == -2
\* no read() has completed since the reader last called it
NoResult == -3
\* fps=None
NoFps == 0
\* fps default
DefaultFps == 10

Callers == 1..NumCallers

VARIABLES
    pc,                \* position of the camera thread (Camera.run)
    running,           \* self.running   (Event)
    pauseEvent,        \* self.pauseEvent (Event)
    readEvent,         \* self.readEvent (Event)
    readLock,          \* self.readLock.locked()
    device,            \* self.device: "none" | "open" | "closed"
    frame,             \* self.frame: NoFrame or the number of the sample
    queue,             \* self.queue
    queueModeEnabled,  \* self.queueModeEnabled
    backgroundIsEnabled, \* self.backgroundIsEnabled
    background,        \* self.background: NoFrame or BackgroundImage
    fps,               \* self.fps
    failK,             \* the handle fails to open on attempts 1..failK
    opens,             \* calls of cv2.VideoCapture(src) so far
    spc,               \* position of each caller thread
    rpc,               \* position of the reader inside read()
    rres,              \* what the reader's last completed read() gave
    itersSincePause    \* loop iterations begun since pauseEvent was cleared

vars == <<pc, running, pauseEvent, readEvent, readLock, device, frame, queue,
          queueModeEnabled, backgroundIsEnabled, background, fps, failK, opens, spc, rpc, rres,
          itersSincePause>>

\* the variables of the Camera object other than the thread's position
camVars == <<running, pauseEvent, readEvent, readLock, device, frame, queue,
             queueModeEnabled, backgroundIsEnabled, background, fps>>

(* --------------------------- Camera.__init__ -------------------------- *)
Init ==
    /\ pc = "new"
    /\ running = FALSE
    /\ pauseEvent = TRUE
    /\ readEvent = FALSE
    /\ readLock = FALSE
    /\ device = "none"
    /\ frame = NoFrame
    /\ queue = <<>>
    /\ queueModeEnabled \in BOOLEAN
    /\ backgroundIsEnabled \in BOOLEAN
    /\ background = IF backgroundIsEnabled THEN BackgroundImage ELSE NoFrame
    /\ fps \in {NoFps, DefaultFps}
    /\ failK \in 0..MaxFail
    /\ opens = 0
    /\ spc = [c \in Callers |-> "idle"]
    /\ rpc = "idle"
    /\ rres = NoResult
    /\ itersSincePause = 0

(* ----------------------------- helpers -------------------------------- *)
\* Camera.isConnected
IsConnected == device = "open"

\* the camera thread has been started and has not finished
ThreadAlive == pc \notin {"new", "done", "crashed"}

\* a caller is between calls (its last call returned or raised)
Between(c) == spc[c] \in {"idle", "stop_raised", "start_raised"}

\* Event.set() of pauseEvent (resume, line 220): sets the flag and notifies
\* the thread blocked in pauseEvent.wait(), which then returns whatever the
\* flag is by the time it runs
SetPauseEvent ==
    /\ pauseEvent' = TRUE
    /\ itersSincePause' = 0
    /\ pc' = IF pc = "waiting" THEN "woken" ELSE pc

\* Camera.loadDevice: cv2.VideoCapture(self.src); attempt number opens+1
\* succeeds once failK attempts have failed.  A failed attempt either gives
\* a handle that is not opened or raises cv2.error, which leaves self.device
\* as it was.
LoadDevice ==
    /\ opens' = opens + 1
    /\ IF opens + 1 > failK
         THEN device' = "open"
         ELSE device' \in {"closed", device}

(* ------------------------- Camera.run: the loop ----------------------- *)
\* run, line 303: self.loadDevice()
RunLoad ==
    /\ pc = "run_load"
    /\ LoadDevice
    /\ pc' = "run_set"
    /\ UNCHANGED <<running, pauseEvent, readEvent, readLock, frame, queue,
                   queueModeEnabled, backgroundIsEnabled, background, fps, failK, spc, rpc, rres,
                   itersSincePause>>

\* run, line 304: self.running.set()
RunSetRunning ==
    /\ pc = "run_set"
    /\ running' = TRUE
    /\ pc' = "while"
    /\ UNCHANGED <<pauseEvent, readEvent, readLock, device, frame, queue,
                   queueModeEnabled, backgroundIsEnabled, background, fps, failK, opens, spc, rpc,
                   rres, itersSincePause>>

\* run, line 306: while self.running.is_set()
RunWhile ==
    /\ pc = "while"
    /\ pc' = IF running THEN "if_conn" ELSE "x_mode"
    /\ UNCHANGED <<camVars, failK, opens, spc, rpc, rres, itersSincePause>>

\* run, line 307: if self.isConnected(), and the readEvent.clear() that both
\* update (line 259) and reconnect (line 213) start with
RunIfConnected ==
    /\ pc = "if_conn"
    /\ readEvent' = FALSE
    /\ pc' = IF IsConnected THEN "u_acquire" ELSE "r_load"
    /\ itersSincePause' = IF pauseEvent THEN 0
                          ELSE IF itersSincePause < 2 THEN itersSincePause + 1
                          ELSE itersSincePause
    /\ UNCHANGED <<running, pauseEvent, readLock, device, frame, queue,
                   queueModeEnabled, backgroundIsEnabled, background, fps, failK, opens, spc, rpc,
                   rres>>

\* update, line 260: self.readLock.acquire()
UpdateAcquire ==
    /\ pc = "u_acquire"
    /\ ~readLock
    /\ readLock' = TRUE
    /\ pc' = "u_read"
    /\ UNCHANGED <<running, pauseEvent, readEvent, device, frame, queue,
                   queueModeEnabled, backgroundIsEnabled, background, fps, failK, opens, spc, rpc,
                   rres, itersSincePause>>

\* update, lines 262-272: device.read(), preprocess, process, the store of
\* self.frame and the test of queueModeEnabled.  The handle delivers a
\* sample, reports none, or the read / preprocessing / transform raises.
UpdateRead ==
    /\ pc = "u_read"
    /\ \E outcome \in {"sample", "nothing", "raise"} :
         \/ /\ outcome = "sample"
            /\ IsConnected
            /\ frame < MaxFrames
            /\ frame' = frame + 1
            /\ pc' = IF queueModeEnabled THEN "u_put" ELSE "u_locked"
         \/ /\ outcome = "nothing"
            /\ frame' = frame
            /\ pc' = "u_locked"
         \/ /\ outcome = "raise"
            /\ frame' = frame
            /\ pc' = "crashed"
    /\ UNCHANGED <<running, pauseEvent, readEvent, readLock, device, queue,
                   queueModeEnabled, backgroundIsEnabled, background, fps, failK, opens, spc, rpc,
                   rres, itersSincePause>>

\* an enqueue that discards the sample when the queue is full
UpdatePutDropsWhenFull ==
    /\ pc = "u_put"
    /\ queue' = IF Len(queue) < QueueMaxSize THEN Append(queue, frame) ELSE queue
    /\ pc' = "u_locked"
    /\ UNCHANGED <<running, pauseEvent, readEvent, readLock, device, frame,
                   queueModeEnabled, backgroundIsEnabled, background, fps, failK, opens, spc, rpc,
                   rres, itersSincePause>>

\* update, line 273: self.queue.put(self.frame), a put that blocks while
\* the queue holds QueueMaxSize items
UpdatePut ==
    /\ pc = "u_put"
    /\ Len(queue) < QueueMaxSize
    /\ queue' = Append(queue, frame)
    /\ pc' = "u_locked"
    /\ UNCHANGED <<running, pauseEvent, readEvent, readLock, device, frame,
                   queueModeEnabled, backgroundIsEnabled, background, fps, failK, opens, spc, rpc,
                   rres, itersSincePause>>

\* an update that goes on to the delay without releasing the mutex
UpdateLockedKeepsLock ==
    /\ pc = "u_locked"
    /\ readEvent' = TRUE
    /\ pc' = "delay"
    /\ UNCHANGED <<running, pauseEvent, readLock, device, frame, queue,
                   queueModeEnabled, backgroundIsEnabled, background, fps, failK, opens, spc, rpc,
                   rres, itersSincePause>>

\* update, lines 278-280: self.readEvent.set(); if self.readLock.locked()
UpdateLocked ==
    /\ pc = "u_locked"
    /\ readEvent' = TRUE
    /\ pc' = IF readLock THEN "u_release" ELSE "delay"
    /\ UNCHANGED <<running, pauseEvent, readLock, device, frame, queue,
                   queueModeEnabled, backgroundIsEnabled, background, fps, failK, opens, spc, rpc,
                   rres, itersSincePause>>

\* update, line 281: self.readLock.release(); releasing an unlocked Lock
\* raises RuntimeError, which ends the thread
UpdateRelease ==
    /\ pc = "u_release"
    /\ IF readLock
         THEN /\ readLock' = FALSE
              /\ pc' = "delay"
         ELSE /\ readLock' = readLock
              /\ pc' = "crashed"
    /\ UNCHANGED <<running, pauseEvent, readEvent, device, frame, queue,
                   queueModeEnabled, backgroundIsEnabled, background, fps, failK, opens, spc, rpc,
                   rres, itersSincePause>>

\* a reconnect that sleeps without reopening the handle
ReconnectNoLoad ==
    /\ pc = "r_load"
    /\ pc' = "r_sleep"
    /\ UNCHANGED <<camVars, failK, opens, spc, rpc, rres, itersSincePause>>

\* reconnect, line 214: self.loadDevice()
ReconnectLoad ==
    /\ pc = "r_load"
    /\ LoadDevice
    /\ pc' = "r_sleep"
    /\ UNCHANGED <<running, pauseEvent, readEvent, readLock, frame, queue,
                   queueModeEnabled, backgroundIsEnabled, background, fps, failK, spc, rpc, rres,
                   itersSincePause>>

\* reconnect, lines 215-216: time.sleep(self.reconnectDelay) has elapsed;
\* self.readEvent.set()
ReconnectSleep ==
    /\ pc = "r_sleep"
    /\ readEvent' = TRUE
    /\ pc' = "delay"
    /\ UNCHANGED <<running, pauseEvent, readLock, device, frame, queue,
                   queueModeEnabled, backgroundIsEnabled, background, fps, failK, opens, spc, rpc,
                   rres, itersSincePause>>

\* applyDelay, line 298: if self.fps is not None
ApplyDelay ==
    /\ pc = "delay"
    /\ pc' = IF fps # NoFps THEN "sleep" ELSE "wait"
    /\ UNCHANGED <<camVars, failK, opens, spc, rpc, rres, itersSincePause>>

\* applyDelay, line 299: time.sleep(self.delay) has elapsed
DelaySleep ==
    /\ pc = "sleep"
    /\ pc' = "wait"
    /\ UNCHANGED <<camVars, failK, opens, spc, rpc, rres, itersSincePause>>

\* a pause check that does not wait
NeedAPauseNoWait ==
    /\ pc = "wait"
    /\ pc' = "while"
    /\ UNCHANGED <<camVars, failK, opens, spc, rpc, rres, itersSincePause>>

\* needAPause, line 235: self.pauseEvent.wait() returns at once when the
\* event is set and otherwise blocks until a set() notifies it
NeedAPause ==
    /\ pc = "wait"
    /\ pc' = IF pauseEvent THEN "while" ELSE "waiting"
    /\ UNCHANGED <<camVars, failK, opens, spc, rpc, rres, itersSincePause>>

\* needAPause, line 235: the notified wait() returns
PauseWoken ==
    /\ pc = "woken"
    /\ pc' = "while"
    /\ UNCHANGED <<camVars, failK, opens, spc, rpc, rres, itersSincePause>>

\* run, line 314: self.queueModeEnabled = False
RunExitMode ==
    /\ pc = "x_mode"
    /\ queueModeEnabled' = FALSE
    /\ pc' = "x_release"
    /\ UNCHANGED <<running, pauseEvent, readEvent, readLock, device, frame,
                   queue, backgroundIsEnabled, background, fps, failK, opens, spc, rpc, rres,
                   itersSincePause>>

\* run, lines 315-316: self.readEvent.set(); self.device.release().  With
\* self.device still None the release raises AttributeError.
RunExitRelease ==
    /\ pc = "x_release"
    /\ readEvent' = TRUE
    /\ IF device = "none"
         THEN /\ device' = device
              /\ pc' = "crashed"
         ELSE /\ device' = "closed"
              /\ pc' = "done"
    /\ UNCHANGED <<running, pauseEvent, readLock, frame, queue,
                   queueModeEnabled, backgroundIsEnabled, background, fps, failK, opens, spc, rpc,
                   rres, itersSincePause>>

\* one step of the camera thread
LoopStep ==
    \/ RunLoad
    \/ RunSetRunning
    \/ RunWhile
    \/ RunIfConnected
    \/ UpdateAcquire
    \/ UpdateRead
    \/ UpdatePut
    \/ UpdateLocked
    \/ UpdateRelease
    \/ ReconnectLoad
    \/ ReconnectSleep
    \/ ApplyDelay
    \/ DelaySleep
    \/ NeedAPause
    \/ PauseWoken
    \/ RunExitMode
    \/ RunExitRelease

(* ------------------------ start() and stop() -------------------------- *)
\* a start() that runs run() in a new thread at every call
StartSpawnsAgain(c) ==
    /\ Between(c)
    /\ pc' = "run_load"
    /\ spc' = [spc EXCEPT ![c] = "idle"]
    /\ UNCHANGED <<camVars, failK, opens, rpc, rres, itersSincePause>>

\* start, line 185: self.thread.start(); a Thread can be started once, a
\* second start() raises RuntimeError
Start(c) ==
    /\ Between(c)
    /\ IF pc = "new"
         THEN /\ pc' = "run_load"
              /\ spc' = [spc EXCEPT ![c] = "idle"]
         ELSE /\ pc' = pc
              /\ spc' = [spc EXCEPT ![c] = "start_raised"]
    /\ UNCHANGED <<camVars, failK, opens, rpc, rres, itersSincePause>>

\* stop, line 349: self.resume()
StopCall(c) ==
    /\ Between(c)
    /\ SetPauseEvent
    /\ spc' = [spc EXCEPT ![c] = "s_locked"]
    /\ UNCHANGED <<running, readEvent, readLock, device, frame, queue,
                   queueModeEnabled, backgroundIsEnabled, background, fps, failK, opens, rpc, rres>>

\* stop, line 351: if self.readLock.locked()
StopLocked(c) ==
    /\ spc[c] = "s_locked"
    /\ spc' = [spc EXCEPT ![c] = IF readLock THEN "s_release" ELSE "s_running"]
    /\ UNCHANGED <<pc, camVars, failK, opens, rpc, rres, itersSincePause>>

\* stop, line 352: self.readLock.release(); RuntimeError if it is unlocked
StopRelease(c) ==
    /\ spc[c] = "s_release"
    /\ IF readLock
         THEN /\ readLock' = FALSE
              /\ spc' = [spc EXCEPT ![c] = "s_running"]
         ELSE /\ readLock' = readLock
              /\ spc' = [spc EXCEPT ![c] = "stop_raised"]
    /\ UNCHANGED <<pc, running, pauseEvent, readEvent, device, frame, queue,
                   queueModeEnabled, backgroundIsEnabled, background, fps, failK, opens, rpc, rres,
                   itersSincePause>>

\* stop, line 354: if self.running.is_set(); when it is not, stop returns
StopRunning(c) ==
    /\ spc[c] = "s_running"
    /\ spc' = [spc EXCEPT ![c] = IF running THEN "s_clear" ELSE "idle"]
    /\ UNCHANGED <<pc, camVars, failK, opens, rpc, rres, itersSincePause>>

\* stop, line 355: self.running.clear()
StopClear(c) ==
    /\ spc[c] = "s_clear"
    /\ running' = FALSE
    /\ spc' = [spc EXCEPT ![c] = "s_join"]
    /\ UNCHANGED <<pc, pauseEvent, readEvent, readLock, device, frame, queue,
                   queueModeEnabled, backgroundIsEnabled, background, fps, failK, opens, rpc, rres,
                   itersSincePause>>

\* stop, line 356: self.thread.join() returns when the thread has finished
StopJoin(c) ==
    /\ spc[c] = "s_join"
    /\ pc \in {"done", "crashed"}
    /\ spc' = [spc EXCEPT ![c] = "idle"]
    /\ UNCHANGED <<pc, camVars, failK, opens, rpc, rres, itersSincePause>>

\* one step of a caller inside stop()
StopStep(c) ==
    \/ StopLocked(c)
    \/ StopRelease(c)
    \/ StopRunning(c)
    \/ StopClear(c)
    \/ StopJoin(c)

(* ------------------- pause(), resume(), setSpeed() -------------------- *)
\* a pause that also discards the samples acquired so far
PauseFlushes ==
    /\ pauseEvent' = FALSE
    /\ itersSincePause' = IF pauseEvent THEN 0 ELSE itersSincePause
    /\ frame' = NoFrame
    /\ queue' = <<>>
    /\ UNCHANGED <<pc, running, readEvent, readLock, device,
                   queueModeEnabled, backgroundIsEnabled, background, fps, failK, opens, spc, rpc,
                   rres>>

\* pause, line 224: self.pauseEvent.clear()
Pause ==
    /\ pauseEvent' = FALSE
    /\ itersSincePause' = IF pauseEvent THEN 0 ELSE itersSincePause
    /\ UNCHANGED <<pc, running, readEvent, readLock, device, frame, queue,
                   queueModeEnabled, backgroundIsEnabled, background, fps, failK, opens, spc, rpc,
                   rres>>

\* resume, line 220: self.pauseEvent.set()
Resume ==
    /\ SetPauseEvent
    /\ UNCHANGED <<running, readEvent, readLock, device, frame, queue,
                   queueModeEnabled, backgroundIsEnabled, background, fps, failK, opens, spc, rpc,
                   rres>>

\* setSpeed, lines 342-345: self.fps = fps
SetSpeed ==
    /\ \E f \in {NoFps, DefaultFps} : fps' = f
    /\ UNCHANGED <<pc, running, pauseEvent, readEvent, readLock, device, frame,
                   queue, queueModeEnabled, backgroundIsEnabled, background, failK, opens, spc, rpc,
                   rres, itersSincePause>>

(* ------------------------------ read() -------------------------------- *)
\* read, line 289: if self.isConnected()
ReadCall ==
    /\ rpc = "idle"
    /\ rpc' = IF IsConnected THEN "rd_mode" ELSE "rd_bg"
    /\ rres' = NoResult
    /\ UNCHANGED <<pc, camVars, failK, opens, spc, itersSincePause>>

\* read, line 290: while self.queueModeEnabled
ReadMode ==
    /\ rpc = "rd_mode"
    /\ rpc' = IF queueModeEnabled THEN "rd_get" ELSE "rd_frame"
    /\ UNCHANGED <<pc, camVars, failK, opens, spc, rres, itersSincePause>>

\* a queue read that switches the device to latest-only mode when it finds
\* the queue empty
ReadGetLeavesQueueMode ==
    /\ rpc = "rd_get"
    /\ IF queue # <<>>
         THEN /\ rres' = Head(queue)
              /\ queue' = Tail(queue)
              /\ queueModeEnabled' = queueModeEnabled
         ELSE /\ rres' = frame
              /\ queue' = queue
              /\ queueModeEnabled' = FALSE
    /\ rpc' = "idle"
    /\ UNCHANGED <<pc, running, pauseEvent, readEvent, readLock, device, frame,
                   backgroundIsEnabled, background, fps, failK, opens, spc,
                   itersSincePause>>

\* read, line 291: return self.queue.get(timeout=timeout); an item when the
\* queue holds one, queue.Empty when the timeout ends with the queue empty
ReadGet ==
    /\ rpc = "rd_get"
    /\ IF queue # <<>>
         THEN /\ rres' = Head(queue)
              /\ queue' = Tail(queue)
         ELSE /\ rres' = RaisedEmpty
              /\ queue' = queue
    /\ rpc' = "idle"
    /\ UNCHANGED <<pc, running, pauseEvent, readEvent, readLock, device, frame,
                   queueModeEnabled, backgroundIsEnabled, background, fps, failK, opens, spc,
                   itersSincePause>>

\* a read that takes the stored sample away
ReadFrameConsumes ==
    /\ rpc = "rd_frame"
    /\ rres' = frame
    /\ frame' = NoFrame
    /\ rpc' = "idle"
    /\ UNCHANGED <<pc, running, pauseEvent, readEvent, readLock, device, queue,
                   queueModeEnabled, backgroundIsEnabled, background, fps,
                   failK, opens, spc, itersSincePause>>

\* a read of the stored sample that is done under the acquisition mutex
ReadFrameUnderMutex ==
    /\ rpc = "rd_frame"
    /\ ~readLock
    /\ rres' = frame
    /\ rpc' = "idle"
    /\ UNCHANGED <<pc, camVars, failK, opens, spc, itersSincePause>>

\* read, line 292: return self.frame
ReadFrame ==
    /\ rpc = "rd_frame"
    /\ rres' = frame
    /\ rpc' = "idle"
    /\ UNCHANGED <<pc, camVars, failK, opens, spc, itersSincePause>>

\* read returning the stored sample for a device that is not connected
ReadBackgroundGivesFrame ==
    /\ rpc = "rd_bg"
    /\ rres' = frame
    /\ rpc' = "idle"
    /\ UNCHANGED <<pc, camVars, failK, opens, spc, itersSincePause>>

\* read, line 294: return self.background
ReadBackground ==
    /\ rpc = "rd_bg"
    /\ rres' = background
    /\ rpc' = "idle"
    /\ UNCHANGED <<pc, camVars, failK, opens, spc, itersSincePause>>

\* one step of the reader
ReadStep ==
    \/ ReadCall
    \/ ReadMode
    \/ ReadGet
    \/ ReadFrame
    \/ ReadBackground

(* ----------------------------- the handle ----------------------------- *)
\* the opened capture handle drops: device.isOpened() turns false
Disconnect ==
    /\ device = "open"
    /\ opens < failK + 1 + MaxDisconnects
    /\ device' = "closed"
    /\ UNCHANGED <<pc, running, pauseEvent, readEvent, readLock, frame, queue,
                   queueModeEnabled, backgroundIsEnabled, background, fps, failK, opens, spc, rpc,
                   rres, itersSincePause>>

(* ---------------------- getFrame() and the registry ------------------- *)
\* getFrame, lines 322-324: return self.frame
GetFrame == UNCHANGED vars

\* the names of the devices table the registry under test is built from,
\* every one with a dict of settings
ConfiguredNames == {"default"}

\* Cameras.__init__, lines 375-380: self.devices, one Camera(name=name) per
\* configured name
Devices == {name \in ConfiguredNames : TRUE}

\* the names a by-name operation is called with
Names == Devices \cup {"nonexistent"}

\* Cameras.startAll, lines 388-391
StartAll(c) == \E name \in Devices : Start(c)

\* Cameras.startOnly, lines 393-400
StartOnly(c, name) ==
    IF name \in Devices THEN Start(c) ELSE Between(c) /\ UNCHANGED vars

\* Cameras.stopAll, lines 402-405: device.stop() is entered
StopAll(c) == \E name \in Devices : StopCall(c)

\* Cameras.stopOnly, lines 407-414: device.stop() is entered
StopOnly(c, name) ==
    IF name \in Devices THEN StopCall(c) ELSE Between(c) /\ UNCHANGED vars

\* Cameras.getDevice, lines 416-422
GetDevice(c, name) == Between(c) /\ UNCHANGED vars

\* a pauseOnly that pauses the device whatever the name
PauseOnlyAnyName(c, name) == Between(c) /\ Pause

\* Cameras.pauseOnly, lines 424-431
PauseOnly(c, name) ==
    IF name \in Devices THEN Between(c) /\ Pause
    ELSE Between(c) /\ UNCHANGED vars

\* Cameras.pauseAll, lines 433-436
PauseAll(c) == \E name \in Devices : Between(c) /\ Pause

\* Cameras.resumeAll, lines 438-441
ResumeAll(c) == \E name \in Devices : Between(c) /\ Resume

\* Cameras.resumeOnly, lines 443-451
ResumeOnly(c, name) ==
    IF name \in Devices THEN Between(c) /\ Resume
    ELSE Between(c) /\ UNCHANGED vars

\* Cameras.setSpeedOnly, lines 453-460
SetSpeedOnly(c, name) ==
    IF name \in Devices THEN Between(c) /\ SetSpeed
    ELSE Between(c) /\ UNCHANGED vars

\* Cameras.getAllFrames, lines 462-474
GetAllFrames(c) == \E name \in Devices : Between(c) /\ GetFrame

\* Cameras.getFrameOf, lines 491-498
GetFrameOf(c, name) ==
    IF name \in Devices THEN Between(c) /\ GetFrame
    ELSE Between(c) /\ UNCHANGED vars

\* Cameras.read, lines 509-522: device.read(timeout=timeout) is entered
ReadAll == \E name \in Devices : ReadCall

\* the keys of the mapping Cameras.read(asDict=True) builds, line 518:
\* device.getName() of every device
ReadAllKeys == {name \in Devices : TRUE}

\* a by-name operation of the registry called with this name
ByName(c, name) ==
    \/ StartOnly(c, name)
    \/ StopOnly(c, name)
    \/ GetDevice(c, name)
    \/ PauseOnly(c, name)
    \/ ResumeOnly(c, name)
    \/ SetSpeedOnly(c, name)
    \/ GetFrameOf(c, name)

\* an operation of the registry on all its devices
OnAll(c) ==
    \/ StartAll(c)
    \/ StopAll(c)
    \/ PauseAll(c)
    \/ ResumeAll(c)
    \/ GetAllFrames(c)

(* --------------------------- specification ---------------------------- *)
Next ==
    \/ LoopStep
    \/ \E c \in Callers : Start(c)
    \/ \E c \in Callers : StopCall(c)
    \/ \E c \in Callers : StopStep(c)
    \/ Pause
    \/ Resume
    \/ SetSpeed
    \/ ReadStep
    \/ Disconnect
    \/ GetFrame
    \/ \E c \in Callers : OnAll(c)
    \/ \E c \in Callers, name \in Names : ByName(c, name)
    \/ ReadAll

Spec == Init /\ [][Next]_vars

\* The camera thread is a daemon thread the interpreter keeps scheduling, and
\* a caller inside stop() keeps running: both are weakly fair.  Nothing
\* obliges anyone to call start, stop, pause, resume, setSpeed or read.
Fairness ==
    /\ WF_vars(LoopStep)
    /\ \A c \in Callers : WF_vars(StopStep(c))

FairSpec == Spec /\ Fairness

(* ------------------------------ claims -------------------------------- *)
\* a caller's stop() returns in this step
StopReturns(c) == spc[c] \in {"s_running", "s_join"} /\ spc'[c] = "idle"

\* the camera thread has finished
LoopExited == pc \in {"done", "crashed"}

\* C1: when a stop() on a device that was started returns, the loop has
\* exited and the handle has been released, under every interleaving.
C1_StopReturnsAfterExit ==
    [][\A c \in Callers :
         (StopReturns(c) /\ pc # "new") => (LoopExited' /\ device' # "open")]_vars

\* C2: stop() is idempotent from every state and no call raises; on a
\* device that was never started it returns without waiting for a thread.
C2_StopNeverRaises ==
    \A c \in Callers :
      /\ spc[c] # "stop_raised"
      /\ pc = "new" => spc[c] \notin {"s_clear", "s_join"}

\* C3: a second start() while the loop is running is a no-op that does not
\* raise.
C3_SecondStartDoesNotRaise ==
    [][\A c \in Callers :
         (ThreadAlive /\ spc[c] # "start_raised") => spc'[c] # "start_raised"]_vars

\* C4: every stop() called on a running device eventually returns, whatever
\* the loop waits on and whatever pause()/resume() calls run beside it.
C4_StopEventuallyReturns ==
    \A c \in Callers : (spc[c] = "s_locked" /\ ThreadAlive) ~> (spc[c] = "idle")

\* C5: in queue mode the queue never holds more than its capacity and the
\* loop is never blocked in the enqueue by a full queue.
C5_ProducerNeverBlocked ==
    /\ Len(queue) <= QueueMaxSize
    /\ ~(pc = "u_put" /\ Len(queue) >= QueueMaxSize)

\* C6: read() never raises: it gives a sample, the fallback image or
\* nothing, also in queue mode when the queue is empty at the timeout.
C6_ReadNeverRaises == rres # RaisedEmpty

\* the value read() gives for a device that is not connected
Fallback == IF backgroundIsEnabled THEN BackgroundImage ELSE NoFrame

\* C7: read() on a device that is not connected (never started and stopped
\* devices are not) gives the fallback image when it is enabled and nothing
\* when it is not, without blocking; on a connected device in latest-only
\* mode it gives the stored sample.
C7_ReadContract ==
    /\ [](pc \in {"new", "done"} => ~IsConnected)
    /\ [](rpc = "rd_bg" => ENABLED ReadBackground)
    /\ [][/\ (rpc = "idle" /\ rpc' # "idle") =>
                (rpc' = IF IsConnected THEN "rd_mode" ELSE "rd_bg")
          /\ (rpc = "rd_bg" /\ rpc' = "idle") => rres' = Fallback
          /\ (rpc = "rd_mode" /\ rpc' # "rd_mode" /\ ~queueModeEnabled) =>
                rpc' = "rd_frame"
          /\ (rpc = "rd_frame" /\ rpc' = "idle") => rres' = frame]_vars

\* a read() of a stopped device that has stored samples is about to give the
\* fallback image
C7_Witness ==
    pc = "done" /\ frame > NoFrame /\ rpc = "rd_bg" /\ backgroundIsEnabled

\* C8 as stated: while the device stays paused (no resume() and no stop()
\* since pause()), the loop begins no new acquisition.
C8_NoAcquisitionWhilePaused ==
    [][(~pauseEvent /\ ~pauseEvent') =>
         ~(pc = "if_conn" /\ pc' = "u_acquire")]_vars

\* C8 amended: pause() leaves the loop alive, and while the device stays
\* paused the loop begins at most one more iteration before it blocks in
\* the pause wait.
C8_AtMostOneIterationWhilePaused ==
    /\ [](~pauseEvent => itersSincePause <= 1)
    /\ [][(pauseEvent /\ ~pauseEvent') => (pc' = pc /\ running' = running)]_vars

\* the paused loop has done its one iteration and is blocked in the pause wait
C8_Witness ==
    ~pauseEvent /\ itersSincePause = 1 /\ pc = "waiting" /\ frame > NoFrame

\* C9: the loop thread ends only after stop() has cleared the running
\* signal; a failure inside an acquisition step does not end it.
C9_LoopEndsOnlyOnStop == LoopExited => ~running

\* stop() has cleared the running signal of the started loop
Stopping == ~running /\ pc \notin {"new", "run_load", "run_set"}

\* C10: with the first failK open attempts failing, the device is connected
\* by open attempt failK + 1 and by no earlier one, and after start() it
\* does get connected unless it is paused or stopped, however large failK.
C10_ConnectsOnAttemptKPlusOne ==
    /\ [](opens <= failK => ~IsConnected)
    /\ [][(opens = failK /\ opens' = failK + 1) => IsConnected']_vars
    /\ (pc = "run_load") ~> (IsConnected \/ ~pauseEvent \/ Stopping)

\* the handle failed twice and the third open attempt connected the device
C10_Witness == failK = 2 /\ opens = 3 /\ IsConnected /\ pauseEvent /\ running

\* the loop is inside an acquisition: update() has taken the mutex and has
\* not yet published the sample (lines 260-273)
InAcquisition == pc \in {"u_read", "u_put"}

\* C11: a pause() and a resume(), at any point of the loop's execution, drop
\* no acquired sample (the current sample and the queued samples are the same
\* after the call as before it) and start no acquisition: the step that clears
\* or sets the pause signal leaves the loop where it is (or wakes it from its
\* pause wait) and leaves the mutex as it is.
C11_PauseResumeKeepsSamples ==
    [][pauseEvent' # pauseEvent =>
         /\ frame' = frame
         /\ queue' = queue
         /\ readLock' = readLock
         /\ (pc' = pc \/ (pc = "waiting" /\ pc' = "woken"))
         /\ (InAcquisition' <=> InAcquisition)]_vars

\* the device is paused in the middle of an acquisition, with a current
\* sample stored and a sample queued
C11_Witness ==
    /\ ~pauseEvent
    /\ InAcquisition
    /\ frame # NoFrame
    /\ queue # <<>>

\* a device of the registry is in the Stopped state: its loop has exited and
\* its handle is released
DeviceStopped(name) == name \in Devices /\ LoopExited /\ device # "open"

\* a caller's stopAll() returns in this step: the stop() of the last device
\* of the loop of lines 404-405 returns
StopAllReturns(c) == \E name \in Devices : StopReturns(c)

\* C12: when stopAll() returns on a registry of started devices, every device
\* of the registry is in the Stopped state; the mapping read(asDict=True)
\* builds has exactly the configured names as its keys.
C12_StopAllStopsEveryDevice ==
    /\ [](ReadAllKeys = ConfiguredNames)
    /\ [][\A c \in Callers :
            (StopAllReturns(c) /\ pc # "new") =>
                \A name \in Devices : DeviceStopped(name)']_vars

\* the names that are in no registry entry
UnknownNames == Names \ Devices

\* C13: a by-name operation of the registry (startOnly, stopOnly, pauseOnly,
\* resumeOnly, setSpeedOnly, getFrameOf, getDevice) called with a name that
\* is not in the registry raises nothing and changes nothing: no step that
\* changes the state of a device or of a caller is such a call.
C13_UnknownNameIsNoOp ==
    [][\A c \in Callers, name \in UnknownNames :
         ByName(c, name) => UNCHANGED vars]_vars

\* a started, paused device holding a sample, and a caller free to call a
\* by-name operation with an unknown name
C13_Witness ==
    /\ ThreadAlive
    /\ ~pauseEvent
    /\ frame # NoFrame
    /\ \E c \in Callers, name \in UnknownNames : ENABLED ByName(c, name)

\* the loop leaves applyDelay() in this step
DelayApplied == pc = "delay" /\ pc' # "delay"

\* C14: after every acquisition or reconnect attempt the loop sleeps its
\* rate-limit delay before the next attempt, when a frame rate is set and
\* when none is set: applyDelay() is never left without its sleep.
C14_AlwaysSleepsBetweenAttempts ==
    [][DelayApplied => pc' = "sleep"]_vars

\* run() is entered in this step: a control loop comes into existence
LoopBegins == pc' = "run_load" /\ pc # "run_load"

StartRaises(c) == spc[c] # "start_raised" /\ spc'[c] = "start_raised"

\* C16: from the Stopped state a start() takes the device to Connecting, in
\* the Stopped state reached by a completed stop() as in the initial one: it
\* does not raise there, and the loop is at its first connection attempt
\* after it.
C16_StartFromStoppedConnects ==
    [][\A c \in Callers :
         (pc \in {"new", "done"} /\ device # "open") =>
             /\ ~StartRaises(c)
             /\ (Start(c) => pc' = "run_load")]_vars

\* C17: while an acquisition is in flight the mutex stays held by the loop
\* for the whole acquisition; a concurrent stop() does not release it, and
\* the handle is not released before the acquisition has completed.
C17_MutexHeldDuringAcquisition ==
    /\ [](InAcquisition => readLock)
    /\ [][InAcquisition => pc' # "done"]_vars

\* the loop leaves the sleep of reconnect() in this step
ReconnectSleepLeft == pc = "r_sleep" /\ pc' # "r_sleep"

\* C18: stop() interrupts the reconnect wait: when the stop signal is set
\* while the loop is in the reconnect sleep, the loop leaves the sleep for its
\* exit, not by sitting out the delay and going on with the iteration.
C18_StopInterruptsReconnectSleep ==
    [][(Stopping /\ ReconnectSleepLeft) => pc' = "x_mode"]_vars

\* C19 as stated: the hand-off mode is fixed at construction; no operation
\* and no step of the loop, the loop exit after stop() included, changes
\* queueModeEnabled.
C19_QueueModeNeverChanges ==
    [][queueModeEnabled' = queueModeEnabled]_vars

\* C19 amended: no operation and no step of the running loop changes
\* queueModeEnabled; it changes only when the loop exits, which switches a
\* queue-mode device to latest-only.
C19_QueueModeChangesOnlyAtExit ==
    [][queueModeEnabled' # queueModeEnabled =>
         /\ pc = "x_mode"
         /\ pc' = "x_release"
         /\ ~running
         /\ ~queueModeEnabled']_vars

\* a device that enqueued samples in queue mode has exited its loop and is
\* in latest-only mode
C19_Witness ==
    pc = "done" /\ queue # <<>> /\ ~queueModeEnabled

\* C20: the current sample of a Camera is written only by its own loop,
\* inside an acquisition; read(), getFrame(), pause(), resume(), setSpeed(),
\* stop() and the operations of the registry leave it as it is, and a write
\* puts the newly acquired sample in its place.
C20_FrameWrittenOnlyByLoop ==
    [][frame' # frame =>
         /\ InAcquisition
         /\ pc = "u_read"
         /\ pc' \in {"u_put", "u_locked"}
         /\ frame' \notin {NoFrame, BackgroundImage}
         /\ UNCHANGED <<spc, rpc, rres, pauseEvent, fps, running>>]_vars

\* a reader holds an earlier sample that the loop has replaced since, on a
\* device that is paused and being stopped
C20_Witness ==
    /\ rres > NoFrame
    /\ frame > rres
    /\ ~pauseEvent
    /\ rpc = "idle"
    /\ \E c \in Callers : spc[c] = "s_locked"

\* the loop is in applyDelay(): at its test of fps or in its sleep
InRateLimit == pc \in {"delay", "sleep"}

\* C21: the rate-limit sleep is never performed while the acquisition mutex
\* is held: when the loop enters applyDelay() and while it sleeps there, the
\* mutex is free.
C21_NoSleepWhileMutexHeld == InRateLimit => ~readLock

\* the loop sleeps its rate-limit delay after an acquisition that stored a
\* sample under the mutex
C21_Witness == pc = "sleep" /\ frame # NoFrame /\ IsConnected /\ ~readLock

\* a read() is waiting in queue.get() on an empty queue
ReaderWaitsOnQueue == rpc = "rd_get" /\ queue = <<>>

\* C22: read() never takes the acquisition mutex and never blocks the loop:
\* no step of a read() changes the mutex or the position of the loop; a
\* latest-only read can complete whatever the state of the mutex, also in
\* the middle of an acquisition; a reader waiting on the empty queue leaves
\* the loop free to take the mutex and to enqueue.
C22_ReadNeverBlocksLoop ==
    /\ [][rpc' # rpc => (readLock' = readLock /\ pc' = pc)]_vars
    /\ [](rpc = "rd_frame" => ENABLED ReadFrame)
    /\ []((ReaderWaitsOnQueue /\ pc = "u_acquire" /\ ~readLock) =>
              ENABLED UpdateAcquire)
    /\ []((ReaderWaitsOnQueue /\ pc = "u_put") => ENABLED UpdatePut)

\* a latest-only read is about to return the stored sample while the loop
\* holds the mutex in the middle of an acquisition
C22_Witness ==
    rpc = "rd_frame" /\ readLock /\ InAcquisition /\ frame # NoFrame

\* the loop executes the release of update(), line 281, in this step
ReleaseByLoop == pc = "u_release" /\ pc' # "u_release"

\* a caller executes the release of stop(), line 352, in this step
ReleaseByStop(c) == spc[c] = "s_release" /\ spc'[c] # "s_release"

\* C23: under every interleaving of stop() with the acquisition step of the
\* loop, the mutex is locked whenever one of them releases it: the release
\* of update() and the release of stop() never find it already unlocked, so
\* neither thread fails with a release of an unlocked lock.
C23_NoReleaseOfUnlockedMutex ==
    [][(ReleaseByLoop \/ \E c \in Callers : ReleaseByStop(c)) => readLock]_vars

\* the samples in the queue are successive acquisitions, oldest first
QueueInOrder ==
    \A i \in 1..(Len(queue) - 1) : queue[i + 1] = queue[i] + 1

\* the newest sample is the last of the queue, except between its store and
\* its enqueue, when it is the one after the last of the queue
NewestEnqueuedOnce ==
    queue # <<>> =>
        queue[Len(queue)] = IF pc = "u_put" THEN frame - 1 ELSE frame

\* C24: in queue mode, while the device runs, every acquired sample is
\* enqueued exactly once and readers take the samples in the order of their
\* acquisition: an acquired sample goes to the enqueue, the enqueue is left
\* only by appending that sample, the queue changes only by that append or
\* by a read taking its head, and its content is at all times a run of
\* successive samples ending with the newest.
C24_QueueFifoExactlyOnce ==
    /\ [](QueueInOrder /\ NewestEnqueuedOnce)
    /\ [][/\ (frame' # frame /\ queueModeEnabled) => pc' = "u_put"
          /\ (pc = "u_put" /\ pc' # "u_put") =>
                (queue' = Append(queue, frame) /\ pc' = "u_locked")
          /\ queue' # queue =>
                \/ pc = "u_put" /\ queue' = Append(queue, frame)
                \/ /\ rpc = "rd_get"
                   /\ queue' = Tail(queue)
                   /\ rres' = Head(queue)]_vars

\* a reader holds the first sample while the two acquired after it wait in
\* the queue in their order
C24_Witness ==
    /\ queueModeEnabled
    /\ ThreadAlive
    /\ rres > NoFrame
    /\ Len(queue) = QueueMaxSize
    /\ Head(queue) = rres + 1
    /\ frame = queue[Len(queue)]

====
